---------------------------- MODULE Spec2Model ----------------------------
(***************************************************************************)
(* Model of bartcode/sportpools-tennis: the bracket emulator               *)
(* (TennisPoolEmulator.play_draw / play_round), the scoring functions      *)
(* (rounds_to_score, probabilities_to_score, seed_to_black_points) and the *)
(* selection optimiser (optimise_selection).                               *)
(*                                                                         *)
(* The repository holds the emulator three times.  play_round of           *)
(* sportpools/model/emulator.py wraps its sweep in try/except IndexError;  *)
(* play_round of sportpools/emulator.py and of sportpools/tennis.py is the *)
(* same sweep without the try.  The variable `module` says which one runs. *)
(***************************************************************************)
EXTENDS Integers, Sequences, FiniteSets, TLC

VARIABLES
    module,      \* which emulator module the instance comes from
    schedule,    \* self._schedule: rows 0..N-1 of [player, odds]
    ROUNDS,      \* the list of round names handed to play_draw
    standings,   \* self.standings: <<>> for None, else Players at 0..N-1
    pc,          \* position of the caller: ready, draw, done, raised
    roundNo,     \* play_round calls of this play_draw that returned
    index,       \* the local `index` of play_round when it last ended
    indexError,  \* the last play_round read standings[len(standings)]
    exception,   \* the exception that left play_draw: "none" or its type
    result,      \* self._schedule after __update_schedule: rows [player, rounds]
    args,        \* the arguments of a call of a scoring function
    ret,         \* what that call returned: << >> before it returns, else <<value>>
    pool,        \* optimise_selection's schedule: rows [player, potency, black]
    selection_limit,
    black_points_limit,
    selected_loser, \* the name of the selected loser: << >> for none, else <<name>>
    outcome,     \* of optimise_selection: pending, returned or raised
    selection    \* the rows optimise_selection returned

emulatorVars ==
    <<module, schedule, ROUNDS, standings, pc, roundNo, index, indexError,
      exception, result>>

scoreVars == <<args, ret>>

optVars == <<pool, selection_limit, black_points_limit, selected_loser, outcome, selection>>

vars == <<emulatorVars, scoreVars, optVars>>

-----------------------------------------------------------------------------
(* Bounds *)

MaxPlayers == 4
MaxRounds == 2

\* Scoring: the longest round sequence, the largest seed, and the grain of
\* the probabilities (a probability is a multiple of 1/ProbUnits).
MaxScoreRounds == 7
MaxSeed == 34
ProbUnits == 2

\* Optimiser: the largest pool and the largest budget.
MaxPool == 3
MaxBudget == 3

\* The potencies and costs of the pool's rows: a loser's score and two
\* ordinary ones, and three cost tiers.
Potencies == {0 - 10, 10, 16}
Costs == {0, 1, 2}

\* Two odds values are enough to make a pair win, lose and tie.
Odds == {0, 1}

Modules == {"model.emulator", "emulator"}

-----------------------------------------------------------------------------
(* Helpers *)

Range0(n) == 0 .. (n - 1)

RECURSIVE SumOver(_, _)
SumOver(f, S) ==
    IF S = {} THEN 0
    ELSE LET x == CHOOSE y \in S : TRUE IN f[x] + SumOver(f, S \ {x})

RECURSIVE Pow2(_)
Pow2(k) == IF k = 0 THEN 1 ELSE 2 * Pow2(k - 1)

IsPow2(n) == \E k \in 0 .. n : Pow2(k) = n

Log2(n) == CHOOSE k \in 0 .. n : Pow2(k) = n

-----------------------------------------------------------------------------
(* Player and TennisPoolEmulator *)

\* Player(x['player'], x['seed'], -1): the dataclass defaults for the rest.
Player(name) ==
    [player |-> name, round_odds |-> -1, terminated |-> FALSE,
     round_index |-> 0, index |-> 0]

\* Player.__gt__
GtOrEqual(a, b) == a.round_odds >= b.round_odds

Gt(a, b) == a.round_odds > b.round_odds

\* __get_round_odds: the first row of the schedule with that name.
get_round_odds(sched, round_str, name) ==
    LET rows == {i \in DOMAIN sched : sched[i].player = name}
        first == CHOOSE i \in rows : \A j \in rows : i <= j
    IN sched[first].odds[round_str]

\* `while self.standings[index].terminated: index += 1`.  The value is the
\* index the loop stops at; Len(s) means the read of standings[len] raised.
SkipNothing(s, n, i) == IF i >= n THEN n ELSE i

RECURSIVE SkipTerminated(_, _, _)
SkipTerminated(s, n, i) ==
    IF i >= n THEN n
    ELSE IF s[i].terminated THEN SkipTerminated(s, n, i + 1)
    ELSE i

\* The if/else of a match: the loser is terminated, the winner's round_index
\* grows by one.
PlayMatchBothAdvance(s, i1, i2) ==
    IF Gt(s[i1], s[i2])
    THEN [s EXCEPT ![i1].round_index = @ + 1]
    ELSE [s EXCEPT ![i1].terminated = TRUE, ![i2].round_index = @ + 1]

PlayMatch(s, i1, i2) ==
    IF Gt(s[i1], s[i2])
    THEN [s EXCEPT ![i2].terminated = TRUE, ![i1].round_index = @ + 1]
    ELSE [s EXCEPT ![i1].terminated = TRUE, ![i2].round_index = @ + 1]

\* The outer `while index < len(self.standings)` of play_round.
RECURSIVE Sweep(_, _)
Sweep(s, i) ==
    LET n == Cardinality(DOMAIN s) IN
    IF ~(i < n) THEN [standings |-> s, index |-> i, raised |-> FALSE]
    ELSE
      LET i1 == SkipTerminated(s, n, i) IN
      IF i1 >= n THEN [standings |-> s, index |-> i1, raised |-> TRUE]
      ELSE
        LET s1 == [s EXCEPT ![i1].index = i1]
            i2 == SkipTerminated(s1, n, i1 + 1)
        IN
        IF i2 >= n THEN [standings |-> s1, index |-> i2, raised |-> TRUE]
        ELSE
          LET s2 == [s1 EXCEPT ![i2].index = i2]
          IN Sweep(PlayMatch(s2, i1, i2), i2 + 1)

\* play_round up to the sweep: the lazy conversion of the schedule into
\* Players, then the assignment of the round's odds to every Player.
play_round(st, sched, round_str) ==
    LET s0 == IF st = << >>
              THEN [i \in DOMAIN sched |-> Player(sched[i].player)]
              ELSE st
        s1 == [i \in DOMAIN s0 |->
                 [s0[i] EXCEPT !.round_odds =
                     get_round_odds(sched, round_str, s0[i].player)]]
    IN Sweep(s1, 0)

\* __update_schedule: player_rounds built from the standings, then an inner
\* merge of the schedule with it on 'player', in the order of the schedule.
RECURSIVE MergeRows(_, _, _)
MergeRows(sched, st, i) ==
    IF i >= Cardinality(DOMAIN sched) THEN << >>
    ELSE
      LET RECURSIVE Matches(_)
          Matches(j) ==
            IF j >= Cardinality(DOMAIN st) THEN << >>
            ELSE (IF st[j].player = sched[i].player
                  THEN << [player |-> sched[i].player, rounds |-> st[j].round_index] >>
                  ELSE << >>) \o Matches(j + 1)
      IN Matches(0) \o MergeRows(sched, st, i + 1)

update_schedule_survivors_only(sched, st) ==
    MergeRows(sched,
              [j \in DOMAIN st |->
                 IF st[j].terminated THEN [st[j] EXCEPT !.player = 0 - 1] ELSE st[j]],
              0)

update_schedule(sched, st) == MergeRows(sched, st, 0)

-----------------------------------------------------------------------------
(* Scoring *)

Max(a, b) == IF a >= b THEN a ELSE b

Min(a, b) == IF a <= b THEN a ELSE b

\* rounds_to_score of emulator.py and model/emulator.py (the same body).
rounds_to_score_no_second_week(rounds, black, loser) ==
    IF loser THEN rounds * (-10)
    ELSE
      LET base_score == rounds * (10 - black)
          win_score == IF rounds = 7 THEN 50 ELSE 0
      IN base_score + win_score

rounds_to_score(rounds, black, loser) ==
    IF loser THEN rounds * (-10)
    ELSE
      LET base_score == rounds * (10 - black)
          second_week_score == Max(0, rounds - 3) * (10 - black)
          win_score == IF rounds = 7 THEN 50 ELSE 0
      IN base_score + second_week_score + win_score

\* A Python slice s[start:stop] of a sequence (positions from 0, a negative
\* bound counts from the end, both bounds clipped to the sequence).
PySlice(s, start, stop) ==
    LET n == Len(s)
        lo == IF start < 0 THEN Max(0, n + start) ELSE Min(start, n)
        hi == IF stop < 0 THEN Max(0, n + stop) ELSE Min(stop, n)
    IN IF lo >= hi THEN << >> ELSE SubSeq(s, lo + 1, hi)

\* sum(values * weight) over a sequence of values.
RECURSIVE SumTimes(_, _)
SumTimes(s, weight) ==
    IF s = << >> THEN 0 ELSE Head(s) * weight + SumTimes(Tail(s), weight)

\* probabilities_to_score.  The probabilities are counted in units of
\* 1/ProbUnits, so the value is ProbUnits times the float the code returns.
probabilities_to_score_open_second_week(round_probs, black, loser) ==
    LET first_week == SumTimes(PySlice(round_probs, 0, 3), 10 - black)
        second_week ==
            SumTimes(PySlice(round_probs, 3, Len(round_probs)), 2 * (10 - black))
        win == round_probs[Len(round_probs)] * 50
    IN IF loser THEN SumTimes(round_probs, 10 - black)
       ELSE first_week + second_week + win

probabilities_to_score_weeks_swapped(round_probs, black, loser) ==
    LET first_week == SumTimes(PySlice(round_probs, 0, 3), 2 * (10 - black))
        second_week == SumTimes(PySlice(round_probs, 3, -1), 10 - black)
        win == round_probs[Len(round_probs)] * 50
    IN IF loser THEN SumTimes(round_probs, 10 - black)
       ELSE first_week + second_week + win

probabilities_to_score(round_probs, black, loser) ==
    LET first_week == SumTimes(PySlice(round_probs, 0, 3), 10 - black)
        second_week == SumTimes(PySlice(round_probs, 3, -1), 2 * (10 - black))
        win == round_probs[Len(round_probs)] * 50
    IN IF loser THEN SumTimes(round_probs, 10 - black)
       ELSE first_week + second_week + win

\* seed_to_black_points.  A seed is << >> when it is missing (None, NaN)
\* and <<n>> otherwise.
seed_to_black_points_off_by_one(seed) ==
    IF seed = << >> \/ seed[1] = 0 \/ seed[1] > 32 THEN 0
    ELSE IF seed[1] <= 3 THEN 5
    ELSE IF seed[1] <= 5 THEN 4
    ELSE IF seed[1] <= 9 THEN 3
    ELSE IF seed[1] <= 17 THEN 2
    ELSE 1

seed_to_black_points(seed) ==
    IF seed = << >> \/ seed[1] = 0 \/ seed[1] > 32 THEN 0
    ELSE IF seed[1] < 3 THEN 5
    ELSE IF seed[1] < 5 THEN 4
    ELSE IF seed[1] < 9 THEN 3
    ELSE IF seed[1] < 17 THEN 2
    ELSE 1

-----------------------------------------------------------------------------
(* The emulator as a state machine *)

Schedules(n, r) ==
    { [i \in Range0(n) |-> [player |-> i, odds |-> o[i]]] :
        o \in [Range0(n) -> [1 .. r -> Odds]] }

NoArgs ==
    [fn |-> "none", rounds |-> 0, R |-> 0, black |-> 0, loser |-> FALSE,
     round_probs |-> << >>, seed |-> << >>]

EmulatorInit ==
    /\ module \in Modules
    /\ \E n \in 1 .. MaxPlayers, r \in 1 .. MaxRounds :
         /\ schedule \in Schedules(n, r)
         /\ ROUNDS = [j \in 1 .. r |-> j]
    /\ standings = << >>
    /\ pc = "ready"
    /\ roundNo = 0
    /\ index = 0
    /\ indexError = FALSE
    /\ exception = "none"
    /\ result = << >>

\* No emulator: the state of a run that only calls the static functions.
EmulatorIdle ==
    /\ module = "emulator"
    /\ schedule = << >>
    /\ ROUNDS = << >>
    /\ standings = << >>
    /\ pc = "idle"
    /\ roundNo = 0
    /\ index = 0
    /\ indexError = FALSE
    /\ exception = "none"
    /\ result = << >>

ScoreIdle == args = NoArgs /\ ret = << >>

OptIdle ==
    /\ pool = << >>
    /\ selection_limit = 0
    /\ black_points_limit = 0
    /\ selected_loser = << >>
    /\ outcome = "idle"
    /\ selection = << >>

Init == EmulatorInit /\ ScoreIdle /\ OptIdle

\* play_draw is called.
PlayDraw ==
    /\ pc = "ready"
    /\ pc' = "draw"
    /\ UNCHANGED <<module, schedule, ROUNDS, standings, roundNo, index,
                   indexError, exception, result>>
    /\ UNCHANGED <<scoreVars, optVars>>

\* One iteration of `for round_str in rounds: self.play_round(round_str)`.
\* model/emulator.py swallows the IndexError of the sweep; in the other two
\* modules it leaves play_round and play_draw.
PlayRound ==
    /\ pc = "draw"
    /\ roundNo < Len(ROUNDS)
    /\ LET res == play_round(standings, schedule, ROUNDS[roundNo + 1]) IN
         /\ standings' = res.standings
         /\ index' = res.index
         /\ indexError' = res.raised
         /\ IF res.raised /\ module # "model.emulator"
            THEN pc' = "raised" /\ exception' = "IndexError" /\ roundNo' = roundNo
            ELSE pc' = "draw" /\ exception' = exception /\ roundNo' = roundNo + 1
    /\ UNCHANGED <<module, schedule, ROUNDS, result>>
    /\ UNCHANGED <<scoreVars, optVars>>

\* The loop is over: __update_schedule, and play_draw returns.
UpdateSchedule ==
    /\ pc = "draw"
    /\ roundNo = Len(ROUNDS)
    /\ result' = update_schedule(schedule, standings)
    /\ pc' = "done"
    /\ UNCHANGED <<module, schedule, ROUNDS, standings, roundNo, index,
                   indexError, exception>>
    /\ UNCHANGED <<scoreVars, optVars>>

Next == PlayDraw \/ PlayRound \/ UpdateSchedule

Spec == Init /\ [][Next]_vars

-----------------------------------------------------------------------------
(* The scoring functions as a state machine: one call per behaviour *)

Probs(r) == [1 .. r -> 0 .. ProbUnits]

RoundsToScoreArgs(r, n, b, l) ==
    [NoArgs EXCEPT !.fn = "rounds_to_score", !.R = r, !.rounds = n,
                   !.black = b, !.loser = l]

ProbabilitiesToScoreArgs(p, b, l) ==
    [NoArgs EXCEPT !.fn = "probabilities_to_score", !.R = Len(p),
                   !.round_probs = p, !.black = b, !.loser = l]

SeedToBlackPointsArgs(s) == [NoArgs EXCEPT !.fn = "seed_to_black_points", !.seed = s]

\* A call of rounds_to_score on a competitor that survived n of the r rounds
\* of a draw, of probabilities_to_score on the r probabilities of a row, or
\* of seed_to_black_points on a seed; black points are 0..5.
ScoreInit ==
    /\ EmulatorIdle
    /\ OptIdle
    /\ ret = << >>
    /\ \/ \E r \in 1 .. MaxScoreRounds, n \in 0 .. MaxScoreRounds,
            b \in 0 .. 5, l \in BOOLEAN :
            n <= r /\ args = RoundsToScoreArgs(r, n, b, l)
       \/ \E r \in 1 .. MaxScoreRounds, b \in 0 .. 5, l \in BOOLEAN :
            \E p \in Probs(r) : args = ProbabilitiesToScoreArgs(p, b, l)
       \/ \E n \in 0 .. MaxSeed : args = SeedToBlackPointsArgs(<<n>>)
       \/ args = SeedToBlackPointsArgs(<< >>)

RoundsToScore ==
    /\ args.fn = "rounds_to_score"
    /\ ret = << >>
    /\ ret' = << rounds_to_score(args.rounds, args.black, args.loser) >>
    /\ UNCHANGED <<args, emulatorVars, optVars>>

ProbabilitiesToScore ==
    /\ args.fn = "probabilities_to_score"
    /\ ret = << >>
    /\ ret' = << probabilities_to_score(args.round_probs, args.black, args.loser) >>
    /\ UNCHANGED <<args, emulatorVars, optVars>>

SeedToBlackPoints ==
    /\ args.fn = "seed_to_black_points"
    /\ ret = << >>
    /\ ret' = << seed_to_black_points(args.seed) >>
    /\ UNCHANGED <<args, emulatorVars, optVars>>

ScoreNext == RoundsToScore \/ ProbabilitiesToScore \/ SeedToBlackPoints

SpecScore == ScoreInit /\ [][ScoreNext]_vars

-----------------------------------------------------------------------------
(* optimise_selection *)

\* sum(coef[p] * param_x[p] for p in param_player)
RECURSIVE Dot(_, _, _)
Dot(coef, x, S) ==
    IF S = {} THEN 0
    ELSE LET p == CHOOSE q \in S : TRUE
         IN coef[p] * x[p] + Dot(coef, x, S \ {p})

\* The objective of the LpProblem: maximise the potency of the selection.
Objective(sched) == [p \in DOMAIN sched |-> sched[p].potency]

\* The two constraints of the LpProblem: as many players as the selection
\* limit, and no more black points than the limit.
ConstraintsAtMostLimit(sched, limit, black_limit) ==
    << [coef |-> [p \in DOMAIN sched |-> 1], sense |-> "<=", rhs |-> limit],
       [coef |-> [p \in DOMAIN sched |-> sched[p].black], sense |-> "<=",
        rhs |-> black_limit] >>

Constraints(sched, limit, black_limit) ==
    << [coef |-> [p \in DOMAIN sched |-> 1], sense |-> "==", rhs |-> limit],
       [coef |-> [p \in DOMAIN sched |-> sched[p].black], sense |-> "<=",
        rhs |-> black_limit] >>

\* LpVariable.matrix('x', ..., 0, 1, LpInteger): one 0/1 variable per row.
Assignments(sched) == [DOMAIN sched -> {0, 1}]

SatisfiesEqualityAsAtMost(x, c) ==
    Dot(c.coef, x, DOMAIN x) <= c.rhs

Satisfies(x, c) ==
    LET lhs == Dot(c.coef, x, DOMAIN x)
    IN IF c.sense = "==" THEN lhs = c.rhs ELSE lhs <= c.rhs

\* probability.solve(): the solver of pulp.  It leaves an optimal solution in
\* the variables when the problem has one; when the problem is infeasible the
\* values it leaves are not defined, and those are every assignment.
SolveAnyFeasible(objective, constraints, assignments) ==
    LET feasible == {x \in assignments :
                        \A k \in DOMAIN constraints : Satisfies(x, constraints[k])}
    IN IF feasible = {} THEN assignments ELSE feasible

Solve(objective, constraints, assignments) ==
    LET feasible == {x \in assignments :
                        \A k \in DOMAIN constraints : Satisfies(x, constraints[k])}
        value(x) == Dot(objective, x, DOMAIN x)
    IN IF feasible = {} THEN assignments
       ELSE {x \in feasible : \A y \in feasible : value(y) <= value(x)}

\* schedule[schedule['player'].isin(player_selection)], in schedule order.
RECURSIVE IsIn(_, _, _)
IsIn(sched, names, i) ==
    IF i >= Cardinality(DOMAIN sched) THEN << >>
    ELSE (IF sched[i].player \in names THEN <<sched[i]>> ELSE << >>)
         \o IsIn(sched, names, i + 1)

\* optimise_selection after solve(): the names of the rows whose variable is
\* set, then the rows of the schedule with those names.
ExtractSelection(sched, x) ==
    LET player_selection == {sched[p].player : p \in {q \in DOMAIN sched : x[q] # 0}}
    IN IsIn(sched, player_selection, 0)

Pools(n) ==
    { [i \in Range0(n) |-> [player |-> i, potency |-> f[i][1], black |-> f[i][2]]] :
        f \in [Range0(n) -> Potencies \X Costs] }

OptInit ==
    /\ EmulatorIdle
    /\ ScoreIdle
    /\ \E n \in 1 .. MaxPool :
         /\ pool \in Pools(n)
         /\ selection_limit \in 0 .. (n + 1)
    /\ black_points_limit \in 0 .. MaxBudget
    /\ selected_loser = << >>
    /\ outcome = "pending"
    /\ selection = << >>

\* optimise_selection returns whatever the solver left in the variables: it
\* does not look at the status of solve().
OptimiseSelection ==
    /\ outcome = "pending"
    /\ \E x \in Solve(Objective(pool),
                      Constraints(pool, selection_limit, black_points_limit),
                      Assignments(pool)) :
         selection' = ExtractSelection(pool, x)
    /\ outcome' = "returned"
    /\ UNCHANGED <<pool, selection_limit, black_points_limit, selected_loser, emulatorVars, scoreVars>>

OptNext == OptimiseSelection

SpecOpt == OptInit /\ [][OptNext]_vars

-----------------------------------------------------------------------------
(* optimise_selection with a selected loser, as both __main__ modules call  *)
(* it (loser=args.loser, rounds=ROUNDS).  The function they call takes the  *)
(* name of the loser; it is written here from its contract: the linear      *)
(* programme is the one above, on a schedule whose loser is scored as a     *)
(* loser, with one more player, the loser's black points on top of the      *)
(* limit, and the loser's variable fixed to 1.                              *)

\* The names of the players, by position, and the names a caller may give.
PlayerNames == <<"Rafael Nadal", "roger federer", "NOVAK DJOKOVIC", "Andy Murray">>

LoserNames == {"rafael nadal", "Roger Federer", "Novak Djokovic", "ANDY MURRAY",
               "Alexander Zverev"}

\* str.lower() on the names in use.
Lower(name) ==
    CASE name \in {"Rafael Nadal", "rafael nadal"} -> "rafael nadal"
      [] name \in {"roger federer", "Roger Federer"} -> "roger federer"
      [] name \in {"NOVAK DJOKOVIC", "Novak Djokovic"} -> "novak djokovic"
      [] name \in {"Andy Murray", "ANDY MURRAY"} -> "andy murray"
      [] name = "Alexander Zverev" -> "alexander zverev"

\* The rows of the schedule whose name is the loser's, whatever the case.
LoserRows(sched, name) ==
    IF name = << >> THEN {}
    ELSE {p \in DOMAIN sched : Lower(sched[p].player) = Lower(name[1])}

\* The schedule with the potency of the loser recomputed as a loser's.
LoserSchedule(sched, rows) ==
    [p \in DOMAIN sched |->
        IF p \in rows
        THEN [sched[p] EXCEPT
                !.potency = probabilities_to_score(sched[p].round_probs,
                                                   sched[p].black, TRUE)]
        ELSE sched[p]]

\* The constraints with a loser: one more player, the loser's black points
\* on top of the limit, and the loser selected.
LoserConstraints(sched, rows, limit, black_limit) ==
    IF rows = {} THEN Constraints(sched, limit, black_limit)
    ELSE LET l == CHOOSE p \in rows : TRUE
         IN Constraints(sched, limit + 1, black_limit + sched[l].black)
            \o << [coef |-> [p \in DOMAIN sched |-> IF p = l THEN 1 ELSE 0],
                   sense |-> "==", rhs |-> 1] >>

\* The rows of a schedule after add_features: potency is the score of the
\* probabilities per round.
Probabilities == {<<ProbUnits, 1>>, <<1, 0>>}

LoserPools(n) ==
    { [i \in Range0(n) |->
         [player |-> PlayerNames[i + 1],
          potency |-> probabilities_to_score(f[i][1], f[i][2], FALSE),
          black |-> f[i][2],
          round_probs |-> f[i][1]]] :
        f \in [Range0(n) -> Probabilities \X Costs] }

LoserInit ==
    /\ EmulatorIdle
    /\ ScoreIdle
    /\ \E n \in 1 .. MaxPool :
         /\ pool \in LoserPools(n)
         /\ selection_limit \in 0 .. (n + 1)
    /\ black_points_limit \in 0 .. MaxBudget
    /\ selected_loser \in {<<name>> : name \in LoserNames}
    /\ outcome = "pending"
    /\ selection = << >>

\* optimise_selection(schedule, selection_limit, black_points_limit, rounds,
\* loser): an infeasible programme is an error, otherwise the rows of an
\* optimal selection are returned.
OptimiseSelectionLoser ==
    /\ outcome = "pending"
    /\ LET rows == LoserRows(pool, selected_loser)
           sched == LoserSchedule(pool, rows)
           constraints == LoserConstraints(sched, rows, selection_limit,
                                           black_points_limit)
           feasible == \E x \in Assignments(sched) :
                           \A k \in DOMAIN constraints : Satisfies(x, constraints[k])
       IN IF feasible
          THEN /\ \E x \in Solve(Objective(sched), constraints, Assignments(sched)) :
                    selection' = ExtractSelection(sched, x)
               /\ outcome' = "returned"
          ELSE /\ selection' = selection
               /\ outcome' = "raised"
    /\ UNCHANGED <<pool, selection_limit, black_points_limit, selected_loser, emulatorVars, scoreVars>>

LoserNext == OptimiseSelectionLoser

SpecLoser == LoserInit /\ [][LoserNext]_vars

-----------------------------------------------------------------------------
(* Properties of the emulator *)

N == Cardinality(DOMAIN schedule)

RoundsSurvived(i) == IF standings = << >> THEN 0 ELSE standings[i].round_index

Active ==
    IF standings = << >> THEN DOMAIN schedule
    ELSE {i \in DOMAIN standings : ~standings[i].terminated}

RoundsSurvivedTotal ==
    SumOver([i \in DOMAIN schedule |-> RoundsSurvived(i)], DOMAIN schedule)

\* C1: on a bracket of N = 2^k competitors, once k rounds have been played
\* exactly one competitor has survived k rounds, every other competitor has
\* survived fewer, and the rounds survived add up to N - 1.
C1_BracketTotals ==
    (IsPow2(N) /\ roundNo = Log2(N)) =>
        /\ Cardinality({i \in DOMAIN schedule : RoundsSurvived(i) = Log2(N)}) = 1
        /\ \A i \in DOMAIN schedule : RoundsSurvived(i) <= Log2(N)
        /\ RoundsSurvivedTotal = N - 1

C1_Witness ==
    /\ pc = "done"
    /\ N = 4
    /\ roundNo = 2
    /\ \E i \in DOMAIN standings : standings[i].round_index = 2

\* C2: a round entered with an odd number of active competitors fails with
\* an explicit malformed-bracket error; it never ends normally with one
\* active competitor left unpaired.
C2_OddRoundFailsExplicitly ==
    [][ (pc = "draw" /\ roundNo < Len(ROUNDS) /\ Cardinality(Active) % 2 = 1)
          => (pc' = "raised" /\ exception' = "MalformedBracket") ]_vars

\* C3: on a bracket of N = 2^k competitors played for k rounds, play_round
\* never reads the standings past their end and play_draw ends without an
\* index error.
C3_NoReadPastEnd ==
    (IsPow2(N) /\ Len(ROUNDS) = Log2(N)) =>
        (~indexError /\ exception # "IndexError")

\* A step of play_round is about to be taken.
PlayingRound == pc = "draw" /\ roundNo < Len(ROUNDS)

\* The competitors active at the start of the round, in sequence order.
RECURSIVE Ascending(_)
Ascending(S) ==
    IF S = {} THEN << >>
    ELSE LET least == CHOOSE x \in S : \A y \in S : x <= y
         IN <<least>> \o Ascending(S \ {least})

\* 1st active with 2nd active, 3rd with 4th, ...
Pairs ==
    LET A == Ascending(Active)
    IN { <<A[2 * m - 1], A[2 * m]>> : m \in 1 .. (Len(A) \div 2) }

\* The probability of competitor i for the round about to be played.
OddsNow(i) == schedule[i].odds[ROUNDS[roundNo + 1]]

\* In the step, w gains one round and stays active; l is terminated and
\* gains nothing.
Beats(w, l) ==
    /\ ~standings'[w].terminated
    /\ standings'[w].round_index = RoundsSurvived(w) + 1
    /\ standings'[l].terminated
    /\ standings'[l].round_index = RoundsSurvived(l)

\* C13: in every round the competitors active at its start are paired in
\* sequence order, every one of them is in exactly one pair, and in a pair
\* the strictly greater probability gains one round while the other is
\* terminated and gains nothing.
C13_EveryActivePairedInOrder ==
    [][ PlayingRound =>
          /\ \A i \in Active : \E pr \in Pairs : i = pr[1] \/ i = pr[2]
          /\ \A pr \in Pairs :
               /\ OddsNow(pr[1]) > OddsNow(pr[2]) => Beats(pr[1], pr[2])
               /\ OddsNow(pr[2]) > OddsNow(pr[1]) => Beats(pr[2], pr[1]) ]_vars

\* C14: after play_draw the result table holds every competitor of the
\* schedule once, in the order of the schedule, with the rounds it survived;
\* eliminated competitors keep their row.
C14_ResultKeepsEveryRow ==
    pc = "done" =>
        /\ Len(result) = N
        /\ \A i \in DOMAIN schedule :
             /\ result[i + 1].player = schedule[i].player
             /\ result[i + 1].rounds = standings[i].round_index

C14_Witness ==
    /\ pc = "done"
    /\ N = 4
    /\ Len(result) = 4
    /\ \E i \in 1 .. 4 : result[i].rounds = 0 /\ standings[i - 1].terminated
    /\ \E i \in 1 .. 4 : result[i].rounds = 2

Terminated(i) == standings # << >> /\ standings[i].terminated

\* The rounds whose matches have been played: the calls of play_round that
\* returned, and the one that ended in an IndexError after its last match.
RoundsSwept == roundNo + (IF pc = "raised" THEN 1 ELSE 0)

\* C15: a terminated competitor stays terminated and keeps its rounds; the
\* rounds survived never decrease; on a bracket of 2^k competitors a
\* competitor active after r <= k rounds has survived r rounds, and a
\* competitor terminated in round j has survived j - 1.
C15_RoundsSurvivedIsRoundsWon ==
    [][ \A i \in DOMAIN schedule :
          /\ Terminated(i) =>
               /\ standings'[i].terminated
               /\ standings'[i].round_index = standings[i].round_index
          /\ RoundsSurvived(i)' >= RoundsSurvived(i)
          /\ IsPow2(N) =>
               /\ (RoundsSwept' <= Log2(N) /\ ~Terminated(i)')
                     => RoundsSurvived(i)' = RoundsSwept'
               /\ (~Terminated(i) /\ Terminated(i)')
                     => RoundsSurvived(i)' = RoundsSwept' - 1 ]_vars

C15_Witness ==
    /\ N = 4
    /\ RoundsSwept = 2
    /\ \E i \in DOMAIN standings : standings[i].terminated /\ standings[i].round_index = 0
    /\ \E i \in DOMAIN standings : standings[i].terminated /\ standings[i].round_index = 1
    /\ \E i \in DOMAIN standings : ~standings[i].terminated /\ standings[i].round_index = 2

\* C16: in a pair with equal probabilities the second competitor advances
\* and the first is terminated.
C16_TieGoesToTheSecond ==
    [][ PlayingRound =>
          \A pr \in Pairs :
              OddsNow(pr[1]) = OddsNow(pr[2]) => Beats(pr[2], pr[1]) ]_vars

C16_Witness ==
    /\ N = 2
    /\ roundNo = 1
    /\ schedule[0].odds[1] = schedule[1].odds[1]
    /\ standings[0].terminated
    /\ ~standings[1].terminated
    /\ standings[1].round_index = 1

\* C17: once one competitor alone is active, a further play_round leaves
\* every terminated flag and every rounds survived as they are and raises
\* no error.
C17_DecidedDrawIsLeftAlone ==
    [][ (PlayingRound /\ Cardinality(Active) = 1) =>
          /\ \A i \in DOMAIN schedule :
               /\ Terminated(i)' = Terminated(i)
               /\ RoundsSurvived(i)' = RoundsSurvived(i)
          /\ exception' = "none"
          /\ pc' # "raised" ]_vars

-----------------------------------------------------------------------------
(* Properties of the scoring functions *)

Returned(fn) == args.fn = fn /\ ret # << >>

\* rounds + max(0, rounds - 3), for rounds 0..7
RoundWeights == <<0, 1, 2, 3, 5, 7, 9, 11>>

\* C6: for rounds in 0..7 and cost in 0..5 rounds_to_score is rounds * -10
\* for a loser and otherwise rounds*(10-cost) + max(0, rounds-3)*(10-cost),
\* plus 50 when rounds = 7; the values of the repository's test hold.
C6_RoundsToScore ==
    (Returned("rounds_to_score") /\ args.rounds \in 0 .. 7) =>
        LET r == args.rounds
            c == args.black
            expect(rr, cc, v) == (r = rr /\ c = cc) => ret[1] = v
        IN IF args.loser THEN ret[1] = 0 - 10 * r
           ELSE /\ ret[1] = RoundWeights[r + 1] * (10 - c)
                              + (IF r = 7 THEN 50 ELSE 0)
                /\ expect(7, 0, 160)
                /\ expect(6, 1, 81)
                /\ expect(5, 1, 63)
                /\ expect(4, 3, 35)
                /\ expect(3, 5, 15)
                /\ expect(2, 2, 16)
                /\ expect(1, 0, 10)
                /\ (r = 0 => ret[1] = 0)

C6_Witness ==
    /\ Returned("rounds_to_score")
    /\ args.rounds = 7 /\ args.black = 0 /\ ~args.loser
    /\ ret = <<160>>

\* C7: for a round sequence of length R the deterministic score holds the
\* champion bonus of 50 exactly when rounds = R.
C7_ChampionBonusIffAllRounds ==
    (Returned("rounds_to_score") /\ ~args.loser) =>
        LET plain == args.rounds * (10 - args.black)
                       + Max(0, args.rounds - 3) * (10 - args.black)
        IN (ret[1] = plain + 50) <=> (args.rounds = args.R)

OneHot(p, r) ==
    \A i \in 1 .. Len(p) : p[i] = (IF i = r + 1 THEN ProbUnits ELSE 0)

\* C8 as claimed: the probabilistic score of the one-hot vector at round r
\* equals rounds_to_score(r + 1, cost, False), for every r in 0..R-1.
C8_OneHotEqualsDeterministic ==
    (Returned("probabilities_to_score") /\ ~args.loser) =>
        \A r \in 0 .. (args.R - 1) :
            OneHot(args.round_probs, r) =>
                ret[1] = ProbUnits * rounds_to_score(r + 1, args.black, FALSE)

\* C8 as amended: the two scores agree at round 0 (R >= 2); for the seven
\* rounds of ROUNDS and r in 1..6 the one-hot score is strictly smaller.
C8_OneHotAgreesAtRoundZero ==
    (Returned("probabilities_to_score") /\ ~args.loser) =>
        \A r \in 0 .. (args.R - 1) :
            OneHot(args.round_probs, r) =>
                LET det == ProbUnits * rounds_to_score(r + 1, args.black, FALSE)
                IN /\ (r = 0 /\ args.R >= 2) => ret[1] = det
                   /\ (r >= 1 /\ args.R = 7) => ret[1] < det

C8_Witness ==
    /\ Returned("probabilities_to_score")
    /\ ~args.loser
    /\ args.R = 7
    /\ OneHot(args.round_probs, 0)
    /\ ret = << ProbUnits * (10 - args.black) >>

\* C9: probabilities_to_score is (10-cost) times the sum of rounds 0..2 plus
\* 2*(10-cost) times the sum of rounds 3..R-2 plus 50 times round R-1; for a
\* loser it is (10-cost) times the sum of all rounds.
C9_ZoneWeights ==
    Returned("probabilities_to_score") =>
        LET p == args.round_probs
            R == Len(p)
            w == 10 - args.black
            zone(lo, hi) == SumOver(p, {i \in 1 .. R : lo <= i - 1 /\ i - 1 <= hi})
        IN ret[1] = IF args.loser THEN w * zone(0, R - 1)
                    ELSE w * zone(0, 2) + 2 * w * zone(3, R - 2) + 50 * p[R]

C9_Witness ==
    /\ Returned("probabilities_to_score")
    /\ ~args.loser
    /\ args.black = 3
    /\ args.round_probs = <<2, 2, 1, 1, 1, 0, 1>>
    /\ ret = << 5 * 7 + 2 * 14 + 50 >>

\* C10: seeds 1..2 cost 5, 3..4 cost 4, 5..8 cost 3, 9..16 cost 2, 17..32
\* cost 1; seed 0, a seed above 32 and a missing seed cost 0.
C10_SeedTiers ==
    Returned("seed_to_black_points") =>
        LET s == args.seed IN
        ret[1] = IF s = << >> THEN 0
                 ELSE IF s[1] \in 1 .. 2 THEN 5
                 ELSE IF s[1] \in 3 .. 4 THEN 4
                 ELSE IF s[1] \in 5 .. 8 THEN 3
                 ELSE IF s[1] \in 9 .. 16 THEN 2
                 ELSE IF s[1] \in 17 .. 32 THEN 1
                 ELSE 0

C10_Witness ==
    /\ Returned("seed_to_black_points")
    /\ args.seed = <<32>>
    /\ ret = <<1>>

-----------------------------------------------------------------------------
(* Properties of optimise_selection *)

RECURSIVE SeqSum(_)
SeqSum(q) == IF q = << >> THEN 0 ELSE Head(q) + SeqSum(Tail(q))

SelectionPotency == SeqSum([i \in DOMAIN selection |-> selection[i].potency])

SelectionBlack == SeqSum([i \in DOMAIN selection |-> selection[i].black])

SubsetPotency(T) == SumOver([i \in DOMAIN pool |-> pool[i].potency], T)

SubsetBlack(T) == SumOver([i \in DOMAIN pool |-> pool[i].black], T)

\* The subsets of the pool with K members and total cost within the budget.
Fitting ==
    {T \in SUBSET DOMAIN pool :
        Cardinality(T) = selection_limit /\ SubsetBlack(T) <= black_points_limit}

\* C4: when some K-subset fits the budget, the selection returned has K
\* members, costs no more than B, and no K-subset within the budget has a
\* higher total potency.
C4_OptimalSelection ==
    (outcome = "returned" /\ Fitting # {}) =>
        /\ Len(selection) = selection_limit
        /\ SelectionBlack <= black_points_limit
        /\ \A T \in Fitting : SubsetPotency(T) <= SelectionPotency

C4_Witness ==
    /\ outcome = "returned"
    /\ Cardinality(DOMAIN pool) = 3
    /\ selection_limit = 2
    /\ Cardinality(Fitting) >= 2
    /\ \E T \in SUBSET DOMAIN pool :
         /\ Cardinality(T) = 2
         /\ SubsetPotency(T) > SelectionPotency
         /\ SubsetBlack(T) > black_points_limit
    /\ Len(selection) = 2

\* C5: when no subset satisfies both constraints optimise_selection ends in
\* an explicit error; it returns no selection.
C5_InfeasibleIsAnError ==
    (outcome # "pending" /\ Fitting = {}) => outcome = "raised"

-----------------------------------------------------------------------------
(* Properties of optimise_selection with a selected loser *)

LoserFound == LoserRows(pool, selected_loser)

TheLoser == CHOOSE p \in LoserFound : TRUE

\* The score of a loser: every round counts 10 - black, no more.
PenaltyScore(p) == SeqSum([r \in DOMAIN pool[p].round_probs |->
                              pool[p].round_probs[r] * (10 - pool[p].black)])

\* The subsets with the loser, K + 1 members and a total cost within the
\* budget plus the cost of the loser, and what they score.
LoserFitting ==
    {T \in SUBSET DOMAIN pool :
        /\ TheLoser \in T
        /\ Cardinality(T) = selection_limit + 1
        /\ SubsetBlack(T) <= black_points_limit + pool[TheLoser].black}

LoserPotency(T) == SubsetPotency(T \ {TheLoser}) + PenaltyScore(TheLoser)

=============================================================================
